---- MODULE Spec2Model ----
(***************************************************************************)
(* Model of shot_value.py: the event filter (clean_data), the possession   *)
(* counter (calc_ppp), the shot binner (calc_shots), the rebound           *)
(* cross-referencer (calc_rebs) and the expected-value composer            *)
(* (calc_exp_pts, calc_exp_pts_w_orb).                                     *)
(*                                                                         *)
(* A table is a sequence of rows; a row is a record with one field per     *)
(* column the code reads.  A missing string cell is NA, a missing numeric  *)
(* cell is NaN; every comparison with a missing cell is false except !=,   *)
(* as in pandas.  A float result is a record: an exact rational            *)
(* [k |-> "num", n, d] with d > 0, or one of the non-finite values numpy   *)
(* produces when it divides by zero.                                       *)
(***************************************************************************)
EXTENDS Integers, Sequences, FiniteSets, TLC

VARIABLES data, team, filtered, pc, i, shots, rebs, ppp, total_poss, exp_pts, exp_pts_w_orb, fault

vars == <<data, team, filtered, pc, i, shots, rebs, ppp, total_poss, exp_pts, exp_pts_w_orb, fault>>

\* ------------------------------------------------------------------ bounds
MaxRows == 3
MaxSeasonRows == 3
MaxCleanRows == 2
MaxDist == 32

\* ------------------------------------------------------------ cell values
\* NA: a missing cell of a column of plain labels; NAs: a missing cell of a
\* column of strings the code searches (a string is a sequence of characters
\* or tokens, never empty); NaN: a missing cell of a numeric column
NA == "NA"
NAs == <<>>
NaN == -1

\* the substring test of str.contains / `in`: a string is a sequence of tokens
Contains(s, t) ==
  /\ s # NAs
  /\ \E k \in 0..(Len(s) - Len(t)) : SubSeq(s, k + 1, k + Len(t)) = t

Tok2pt == <<"2-pt">>
Tok3pt == <<"3-pt">>
ShotTypes == {<<"2-pt", "jump shot">>, <<"3-pt", "jump shot">>}

\* numeric comparisons on a column that may hold NaN
Le(x, k) == x # NaN /\ x <= k
Gt(x, k) == x # NaN /\ x > k
Ne(x, k) == x = NaN \/ x # k

EmptyRow ==
  [Shooter |-> NAs, ShotType |-> NAs, ShotOutcome |-> NA, ShotDist |-> NaN,
   Rebounder |-> NAs, ReboundType |-> NA, SecLeft |-> NaN,
   TurnoverType |-> NA, FreeThrowNum |-> NA, FreeThrowOutcome |-> NA,
   AwayPlay |-> NA, AwayScore |-> 0, HomeScore |-> 0]

ALL == <<"A", "L", "L">>
NameA == <<"L", "A", "L">>
NameB == <<"B", "O", "S">>

ShotRow(st, out, d) ==
  [EmptyRow EXCEPT !.Shooter = NameA, !.ShotType = st, !.ShotOutcome = out,
                   !.ShotDist = d, !.SecLeft = 45]

RebRow(rt, sec) ==
  [EmptyRow EXCEPT !.Rebounder = NameB, !.ReboundType = rt, !.SecLeft = sec]

TurnoverRow == [EmptyRow EXCEPT !.TurnoverType = "bad pass", !.SecLeft = 45]

FtRow(num, out) ==
  [EmptyRow EXCEPT !.FreeThrowNum = num, !.FreeThrowOutcome = out, !.SecLeft = 45]

EndOfGameRow(away, home) ==
  [EmptyRow EXCEPT !.AwayPlay = "End of Game", !.AwayScore = away,
                   !.HomeScore = home, !.SecLeft = 0]

\* ------------------------------------------------------------- clean_data
\* the columns clean_data keeps, in the order iloc numbers them from 0
FilteredColumns ==
  <<"Shooter", "ShotType", "ShotOutcome", "ShotDist", "Rebounder", "ReboundType", "SecLeft">>

IsNull(col, v) ==
  IF col \in {"Shooter", "ShotType", "Rebounder"} THEN v = NAs
  ELSE IF col \in {"ShotDist", "SecLeft"} THEN v = NaN
  ELSE v = NA

\* data[[...]]: the row reduced to the seven columns
Project(r) == [col \in {FilteredColumns[j] : j \in 1..Len(FilteredColumns)} |-> r[col]]

\* dropna(thresh=2) keeps a row with at least this many populated cells
DropnaThresh == 2

NotNullCount(r) ==
  Cardinality({j \in 1..Len(FilteredColumns) :
                 ~IsNull(FilteredColumns[j], r[FilteredColumns[j]])})

\* the mask with the rebounder forgotten
TeamMaskShooterOnly(r, tm) == Contains(r.Shooter, tm)

\* the row mask of the team filter; str.contains(team, na=False)
TeamMask(r, tm) == Contains(r.Shooter, tm) \/ Contains(r.Rebounder, tm)

clean_data(d, tm) ==
  LET Kept(r) == NotNullCount(r) >= DropnaThresh
      Team(r) == TeamMask(r, tm)
      projected == [k \in 1..Len(d) |-> Project(d[k])]
      dropped == SelectSeq(projected, Kept)
  IN  IF tm # ALL THEN SelectSeq(dropped, Team) ELSE dropped

\* year.iloc[r, c], rows and columns numbered from 0
Iloc(year, r, c) == year[r + 1][FilteredColumns[c + 1]]

\* ----------------------------------------------------------------- floats
Num(n, d) == [k |-> "num", n |-> n, d |-> d]
FNaN == [k |-> "nan", n |-> 0, d |-> 1]
FInf == [k |-> "inf", n |-> 1, d |-> 1]
FNegInf == [k |-> "-inf", n |-> -1, d |-> 1]

Sign(x) == IF x.n > 0 THEN 1 ELSE IF x.n < 0 THEN -1 ELSE 0

\* numpy true division of two integers: a zero divisor gives inf, -inf or nan
\* (with a RuntimeWarning), never an exception
Div(n, d) ==
  IF d = 0 THEN (IF n = 0 THEN FNaN ELSE IF n > 0 THEN FInf ELSE FNegInf)
  ELSE IF d > 0 THEN Num(n, d) ELSE Num(-n, -d)

FMul(x, y) ==
  IF x.k = "nan" \/ y.k = "nan" THEN FNaN
  ELSE IF x.k = "num" /\ y.k = "num" THEN Num(x.n * y.n, x.d * y.d)
  ELSE IF Sign(x) * Sign(y) = 0 THEN FNaN
  ELSE IF Sign(x) * Sign(y) > 0 THEN FInf ELSE FNegInf

FAdd(x, y) ==
  IF x.k = "nan" \/ y.k = "nan" THEN FNaN
  ELSE IF x.k = "num" /\ y.k = "num" THEN Num(x.n * y.d + y.n * x.d, x.d * y.d)
  ELSE IF x.k = "num" THEN y
  ELSE IF y.k = "num" THEN x
  ELSE IF x.k = y.k THEN x ELSE FNaN

\* --------------------------------------------------------------- calc_ppp
RECURSIVE SumScores(_)
SumScores(t) ==
  IF t = <<>> THEN 0
  ELSE (IF Head(t).AwayPlay = "End of Game"
        THEN Head(t).AwayScore + Head(t).HomeScore ELSE 0) + SumScores(Tail(t))

PossMask(r) ==
  \/ r.Shooter # NAs
  \/ r.TurnoverType # NA
  \/ r.FreeThrowNum = "1 of 2"
  \/ r.FreeThrowNum = "1 of 3"

OrbMask(r) == r.ReboundType = "offensive" /\ Ne(r.SecLeft, 0)

FtOrbMask(r) ==
  /\ r.FreeThrowOutcome = "miss"
  /\ r.FreeThrowNum \in {"1 of 2", "1 of 3", "2 of 3"}

TotalOrbs(d) == Len(SelectSeq(d, OrbMask)) - Len(SelectSeq(d, FtOrbMask))

TotalPoss(d) == Len(SelectSeq(d, PossMask)) - TotalOrbs(d)

calc_ppp(d) == Div(SumScores(d), TotalPoss(d))

\* ------------------------------------------------------------- categories
Categories ==
  {"2-pt 0-5 ft", "2-pt 6-10 ft", "2-pt 11-15 ft", "2-pt >15 ft",
   "3-pt <26 ft", "3-pt 26-30 ft", "3-pt >30 ft"}

IsMake(r) == r.ShotOutcome = "make"

\* the boolean mask calc_shots builds for each category
ShotMask(c, r) ==
  CASE c = "2-pt 0-5 ft"   -> Le(r.ShotDist, 5)
    [] c = "2-pt 6-10 ft"  -> Gt(r.ShotDist, 5) /\ Le(r.ShotDist, 10)
    [] c = "2-pt 11-15 ft" -> Gt(r.ShotDist, 10) /\ Le(r.ShotDist, 15)
    [] c = "2-pt >15 ft"   -> Contains(r.ShotType, Tok2pt) /\ Gt(r.ShotDist, 15)
    [] c = "3-pt <26 ft"   -> Contains(r.ShotType, Tok3pt) /\ Le(r.ShotDist, 25)
    [] c = "3-pt 26-30 ft" -> Gt(r.ShotDist, 25) /\ Le(r.ShotDist, 30)
    [] c = "3-pt >30 ft"   -> Gt(r.ShotDist, 30)

\* calc_shots for one season: category -> <<attempts, makes>>
calc_shots(year) ==
  [c \in Categories |->
     LET InCat(r) == ShotMask(c, r)
         sel == SelectSeq(year, InCat)
     IN  <<Len(sel), Len(SelectSeq(sel, IsMake))>>]

\* the chain without its test of the value tag
RebCategoryNoTag(shot_type, shot_dist) ==
  IF shot_dist <= 5 THEN "2-pt 0-5 ft"
  ELSE IF shot_dist <= 10 THEN "2-pt 6-10 ft"
  ELSE IF shot_dist <= 15 THEN "2-pt 11-15 ft"
  ELSE IF shot_dist <= 25 THEN "3-pt <26 ft"
  ELSE IF shot_dist <= 30 THEN "3-pt 26-30 ft"
  ELSE "3-pt >30 ft"

\* the if/elif chain of calc_rebs that picks the category of a missed shot
RebCategory(shot_type, shot_dist) ==
  IF shot_dist <= 5 THEN "2-pt 0-5 ft"
  ELSE IF shot_dist <= 10 THEN "2-pt 6-10 ft"
  ELSE IF shot_dist <= 15 THEN "2-pt 11-15 ft"
  ELSE IF Contains(shot_type, Tok2pt) THEN "2-pt >15 ft"
  ELSE IF shot_dist <= 25 THEN "3-pt <26 ft"
  ELSE IF shot_dist <= 30 THEN "3-pt 26-30 ft"
  ELSE "3-pt >30 ft"

\* the lookahead of calc_rebs on the row after the miss
OffReb(reb_type, sec_left) ==
  IF reb_type = "offensive" /\ Ne(sec_left, 0) THEN 1 ELSE 0

\* ------------------------------------------------- expected-value composer
PointValue(c) ==
  IF c \in {"2-pt 0-5 ft", "2-pt 6-10 ft", "2-pt 11-15 ft", "2-pt >15 ft"} THEN 2 ELSE 3

calc_exp_pts(sh) ==
  [c \in Categories |->
     LET make_percentage == Div(sh[c][2], sh[c][1])
     IN  FMul(Num(PointValue(c), 1), make_percentage)]

calc_exp_pts_w_orb(sh, rb, p) ==
  [c \in Categories |->
     LET make_percentage == Div(sh[c][2], sh[c][1])
         orb_percentage == Div(rb[c], sh[c][1])
     IN  FAdd(FMul(Num(PointValue(c), 1), make_percentage), FMul(orb_percentage, p))]

ZeroRebs == [c \in Categories |-> 0]
ZeroShots == [c \in Categories |-> <<0, 0>>]
NoFloat == [k |-> "none", n |-> 0, d |-> 1]
NoExp == [c \in Categories |-> NoFloat]

\* ---------------------------------------------------------------- actions
\* ppp_data = [calc_ppp(year) for year in data]
CalcPpp ==
  /\ pc = "calc_ppp"
  /\ total_poss' = TotalPoss(data)
  /\ ppp' = calc_ppp(data)
  /\ pc' = "clean_data"
  /\ UNCHANGED <<data, team, filtered, i, shots, rebs, exp_pts, exp_pts_w_orb, fault>>

\* cleaned_data = [clean_data(year) for year in data]
CleanData ==
  /\ pc = "clean_data"
  /\ filtered' = clean_data(data, team)
  /\ pc' = "calc_shots"
  /\ UNCHANGED <<data, team, i, shots, rebs, ppp, total_poss, exp_pts, exp_pts_w_orb, fault>>

\* exp_pts_data = calc_exp_pts(shot_data)
CalcExpPts ==
  /\ pc = "calc_exp_pts"
  /\ exp_pts' = calc_exp_pts(shots)
  /\ pc' = "calc_exp_pts_w_orb"
  /\ UNCHANGED <<data, team, filtered, i, shots, rebs, ppp, total_poss, exp_pts_w_orb, fault>>

\* exp_pts_w_orb_data = calc_exp_pts_w_orb(shot_data, rebs_data, ppp_data)
CalcExpPtsWOrb ==
  /\ pc = "calc_exp_pts_w_orb"
  /\ exp_pts_w_orb' = calc_exp_pts_w_orb(shots, rebs, ppp)
  /\ pc' = "done"
  /\ UNCHANGED <<data, team, filtered, i, shots, rebs, ppp, total_poss, exp_pts, fault>>

\* shot_data = calc_shots(cleaned_data)
CalcShots ==
  /\ pc = "calc_shots"
  /\ shots' = calc_shots(filtered)
  /\ pc' = "calc_rebs_enter"
  /\ UNCHANGED <<data, team, filtered, i, rebs, ppp, total_poss, exp_pts, exp_pts_w_orb, fault>>

\* rebs_data = calc_rebs(cleaned_data): the zeroed tally and the start of the
\* loop over the rows
CalcRebsEnter ==
  /\ pc = "calc_rebs_enter"
  /\ rebs' = ZeroRebs
  /\ i' = 0
  /\ pc' = "calc_rebs"
  /\ UNCHANGED <<data, team, filtered, shots, ppp, total_poss, exp_pts, exp_pts_w_orb, fault>>

\* one iteration of `for i in range(len(year))` whose lookahead is in range
\* (or that needs none); i counts rows from 0 as the code does
CalcRebsStep ==
  /\ pc = "calc_rebs"
  /\ i < Len(filtered)
  /\ IF Iloc(filtered, i, 2) = "miss"
     THEN /\ i + 1 < Len(filtered)
          /\ LET shot_type == Iloc(filtered, i, 1)
                 shot_dist == Iloc(filtered, i, 3)
                 off_reb == OffReb(Iloc(filtered, i + 1, 5), Iloc(filtered, i + 1, 6))
                 c == RebCategory(shot_type, shot_dist)
             IN  rebs' = [rebs EXCEPT ![c] = @ + off_reb]
     ELSE rebs' = rebs
  /\ i' = i + 1
  /\ UNCHANGED <<data, team, filtered, pc, shots, ppp, total_poss, exp_pts, exp_pts_w_orb, fault>>

\* year.iloc[i + 1, 5] on the last row: pandas raises IndexError and
\* calc_rebs returns nothing
CalcRebsFault ==
  /\ pc = "calc_rebs"
  /\ i < Len(filtered)
  /\ Iloc(filtered, i, 2) = "miss"
  /\ i + 1 >= Len(filtered)
  /\ fault' = "IndexError"
  /\ pc' = "raised"
  /\ UNCHANGED <<data, team, filtered, i, shots, rebs, ppp, total_poss, exp_pts, exp_pts_w_orb>>

\* rebs_data.append(rebs); return rebs_data
CalcRebsReturn ==
  /\ pc = "calc_rebs"
  /\ i = Len(filtered)
  /\ pc' = "calc_exp_pts"
  /\ UNCHANGED <<data, team, filtered, i, shots, rebs, ppp, total_poss, exp_pts, exp_pts_w_orb, fault>>

\* ------------------------------------------------- the tally specification
\* filtered tables of shot rows and rebound rows, one distance per category
TallyDists == {3, 13, 20, 28, 33}
RebRows == {RebRow("offensive", 45), RebRow("offensive", 0), RebRow("defensive", 45)}
TallyRows ==
  {Project(ShotRow(st, out, d)) : st \in ShotTypes, out \in {"make", "miss"}, d \in TallyDists}
  \cup {Project(r) : r \in RebRows}

TablesOf(rows, n) == UNION {[1..k -> rows] : k \in 0..n}

InitTally ==
  /\ filtered \in TablesOf(TallyRows, MaxRows)
  /\ data = <<>>
  /\ team = ALL
  /\ pc = "calc_shots"
  /\ i = 0
  /\ shots = ZeroShots
  /\ rebs = ZeroRebs
  /\ ppp = NoFloat
  /\ total_poss = 0
  /\ exp_pts = NoExp
  /\ exp_pts_w_orb = NoExp
  /\ fault = "none"

NextTally == CalcShots \/ CalcRebsEnter \/ CalcRebsStep \/ CalcRebsFault \/ CalcRebsReturn

SpecTally == InitTally /\ [][NextTally]_vars

\* ----------------------------------------------- the binning specification
\* one shot of every value tag, outcome and distance, alone or followed by a
\* rebound row
BinShots == {Project(ShotRow(st, out, d)) : st \in ShotTypes, out \in {"make", "miss"}, d \in 0..MaxDist}

InitBin ==
  /\ filtered \in {<<s>> : s \in BinShots} \cup {<<s, Project(r)>> : s \in BinShots, r \in RebRows}
  /\ data = <<>>
  /\ team = ALL
  /\ pc = "calc_shots"
  /\ i = 0
  /\ shots = ZeroShots
  /\ rebs = ZeroRebs
  /\ ppp = NoFloat
  /\ total_poss = 0
  /\ exp_pts = NoExp
  /\ exp_pts_w_orb = NoExp
  /\ fault = "none"

SpecBin == InitBin /\ [][NextTally]_vars

\* ------------------------------------------------ the season specification
\* one season's raw event table run through main's pipeline
SeasonRows ==
  {ShotRow(<<"2-pt", "jump shot">>, "make", 3), ShotRow(<<"2-pt", "jump shot">>, "miss", 3),
   ShotRow(<<"3-pt", "jump shot">>, "make", 28), ShotRow(<<"3-pt", "jump shot">>, "miss", 28)}
  \cup RebRows
  \cup {TurnoverRow, EndOfGameRow(1, 2)}
  \cup {FtRow("1 of 2", "make"), FtRow("1 of 2", "miss"), FtRow("2 of 2", "miss"),
        FtRow("2 of 3", "miss")}

InitSeason ==
  /\ data \in TablesOf(SeasonRows, MaxSeasonRows)
  /\ team = ALL
  /\ filtered = <<>>
  /\ pc = "calc_ppp"
  /\ i = 0
  /\ shots = ZeroShots
  /\ rebs = ZeroRebs
  /\ ppp = NoFloat
  /\ total_poss = 0
  /\ exp_pts = NoExp
  /\ exp_pts_w_orb = NoExp
  /\ fault = "none"

NextSeason ==
  \/ CalcPpp
  \/ CleanData
  \/ CalcShots
  \/ CalcRebsEnter
  \/ CalcRebsStep
  \/ CalcRebsFault
  \/ CalcRebsReturn
  \/ CalcExpPts
  \/ CalcExpPtsWOrb

SpecSeason == InitSeason /\ [][NextSeason]_vars

\* ------------------------------------------------- the filter specification
\* rows with at most two populated cells among the seven columns, in every
\* combination, full shot rows and full rebound rows, and a turnover row
CleanNames == {NameA, NameB}
CleanTeams == {ALL, <<"L">>, <<"B", "O">>, <<"X">>}

CellOf(col, name) ==
  CASE col = "Shooter" -> name
    [] col = "ShotType" -> <<"2-pt", "jump shot">>
    [] col = "ShotOutcome" -> "miss"
    [] col = "ShotDist" -> 3
    [] col = "Rebounder" -> name
    [] col = "ReboundType" -> "offensive"
    [] col = "SecLeft" -> 45

ColumnSet == {FilteredColumns[j] : j \in 1..Len(FilteredColumns)}

RowWith(P, sname, rname) ==
  [col \in DOMAIN EmptyRow |->
     IF col \in P THEN CellOf(col, IF col = "Shooter" THEN sname ELSE rname)
     ELSE EmptyRow[col]]

CleanRows ==
  {RowWith(P, sn, rn) :
     P \in {Q \in SUBSET ColumnSet : Cardinality(Q) <= 2}
            \cup {{"Shooter", "ShotType", "ShotOutcome", "ShotDist", "SecLeft"},
                  {"Rebounder", "ReboundType", "SecLeft"}},
     sn \in CleanNames, rn \in CleanNames}
  \cup {TurnoverRow}

InitClean ==
  /\ data \in TablesOf(CleanRows, MaxCleanRows)
  /\ team \in CleanTeams
  /\ filtered = <<>>
  /\ pc = "clean_data"
  /\ i = 0
  /\ shots = ZeroShots
  /\ rebs = ZeroRebs
  /\ ppp = NoFloat
  /\ total_poss = 0
  /\ exp_pts = NoExp
  /\ exp_pts_w_orb = NoExp
  /\ fault = "none"

NextClean == CleanData

SpecClean == InitClean /\ [][NextClean]_vars

\* ------------------------------------------------- what the claims speak of
\* the category of a shot by value type first and distance second
SpecCategory(st, d) ==
  IF Contains(st, Tok2pt)
  THEN IF d <= 5 THEN "2-pt 0-5 ft"
       ELSE IF d <= 10 THEN "2-pt 6-10 ft"
       ELSE IF d <= 15 THEN "2-pt 11-15 ft"
       ELSE "2-pt >15 ft"
  ELSE IF d <= 25 THEN "3-pt <26 ft"
       ELSE IF d <= 30 THEN "3-pt 26-30 ft"
       ELSE "3-pt >30 ft"

RECURSIVE SumOver(_, _)
SumOver(f, S) ==
  IF S = {} THEN 0
  ELSE LET x == CHOOSE y \in S : TRUE IN f[x] + SumOver(f, S \ {x})

Attempts == [c \in Categories |-> shots[c][1]]
Makes == [c \in Categories |-> shots[c][2]]

IsShotEvent(r) == r.ShotOutcome # NA
ShotEvents(t) == {k \in 1..Len(t) : IsShotEvent(t[k])}

\* rows k that are a miss followed by an offensive rebound not at the end of
\* a period
RecoveredMisses(t) ==
  {k \in 1..(Len(t) - 1) :
     /\ t[k].ShotOutcome = "miss"
     /\ t[k + 1].ReboundType = "offensive"
     /\ t[k + 1].SecLeft # 0}

MissesWithNext(t) == {k \in 1..(Len(t) - 1) : t[k].ShotOutcome = "miss"}

\* the tally the cross-referencer owes for table t
OwedRebs(t) ==
  [c \in Categories |->
     Cardinality({k \in RecoveredMisses(t) : SpecCategory(t[k].ShotType, t[k].ShotDist) = c})]

LastRowMiss(t) == Len(t) > 0 /\ t[Len(t)].ShotOutcome = "miss"

\* C1: for every table with a miss that has a following row, calc_rebs
\* returns a tally with exactly one recovery, in the category of the missed
\* shot, for every miss followed by an offensive rebound with seconds
\* remaining # 0, and no other credit
C1_CreditsPerMiss ==
  (pc \in {"calc_exp_pts", "raised"} /\ MissesWithNext(filtered) # {})
    => (pc = "calc_exp_pts" /\ rebs = OwedRebs(filtered))

\* C2: when the last row of the table is a missed shot, calc_rebs raises no
\* out-of-range fault and returns the tally of the earlier rows
C2_LastRowMissHandled ==
  LastRowMiss(filtered)
    => /\ fault = "none"
       /\ pc = "calc_exp_pts" => rebs = OwedRebs(filtered)

\* C3: every shot event is counted in the attempts of exactly one category,
\* so the attempts of the seven categories sum to the number of shot events
C3_AttemptsPartition ==
  pc # "calc_shots"
    => /\ \A k \in ShotEvents(filtered) :
            Cardinality({c \in Categories : ShotMask(c, filtered[k])}) = 1
       /\ SumOver(Attempts, Categories) = Cardinality(ShotEvents(filtered))

\* C4: a lone shot is counted in the category of its own value type and
\* distance (the lower category at a boundary distance) and in no other
C4_TypeThenDistance ==
  pc # "calc_shots"
    => \A c \in Categories :
         Attempts[c] = IF c = SpecCategory(filtered[1].ShotType, filtered[1].ShotDist)
                       THEN 1 ELSE 0

\* C5: in every category makes <= attempts and the recoveries tallied by
\* calc_rebs are <= attempts - makes tallied by calc_shots
C5_TallyBounds ==
  pc # "calc_shots"
    => \A c \in Categories :
         /\ Makes[c] <= Attempts[c]
         /\ rebs[c] <= Attempts[c] - Makes[c]

\* a finished season in which a category with a make has one miss and that
\* miss was recovered
C5_Witness ==
  /\ pc = "calc_exp_pts"
  /\ \E c \in Categories : rebs[c] = 1 /\ Attempts[c] - Makes[c] = 1 /\ Makes[c] = 1

\* the rows that end a possession: a shot, a turnover, the first free throw
\* of a trip of two or three
PossEnding(t) ==
  {k \in 1..Len(t) :
     \/ t[k].Shooter # NAs
     \/ t[k].TurnoverType # NA
     \/ t[k].FreeThrowNum \in {"1 of 2", "1 of 3"}}

NonFinalFtMiss(r) ==
  r.FreeThrowNum \in {"1 of 2", "1 of 3", "2 of 3"} /\ r.FreeThrowOutcome = "miss"

\* row k is the missed non-final free throw itself or the row right after it
OnFtMiss(t, k) == NonFinalFtMiss(t[k]) \/ (k > 1 /\ NonFinalFtMiss(t[k - 1]))

QualifyingOrbs(t) ==
  {k \in 1..Len(t) :
     /\ t[k].ReboundType = "offensive"
     /\ t[k].SecLeft # 0
     /\ ~OnFtMiss(t, k)}

\* C6: total possessions = possession-ending rows minus offensive-rebound
\* rows with seconds remaining # 0 that are not on a missed non-final free
\* throw
C6_TotalPossessions ==
  pc # "calc_ppp"
    => total_poss = Cardinality(PossEnding(data)) - Cardinality(QualifyingOrbs(data))

NonFinite(x) == x.k \in {"nan", "inf", "-inf"}

\* C7: no rate is the non-finite result of a division by zero: not PPP when
\* total possessions is 0, not the expected points of a category with 0
\* attempts
C7_NoUnguardedDivision ==
  /\ (pc # "calc_ppp" /\ total_poss = 0) => ~NonFinite(ppp)
  /\ pc \in {"calc_exp_pts_w_orb", "done"}
       => \A c \in Categories : Attempts[c] = 0 => ~NonFinite(exp_pts[c])
  /\ pc = "done"
       => \A c \in Categories : Attempts[c] = 0 => ~NonFinite(exp_pts_w_orb[c])

\* x >= y on floats: false whenever either side is nan
FGe(x, y) ==
  IF x.k = "nan" \/ y.k = "nan" THEN FALSE
  ELSE IF x.k = "num" /\ y.k = "num" THEN x.n * y.d >= y.n * x.d
  ELSE x.k = y.k \/ x.k = "inf" \/ y.k = "-inf"

\* C8: in every category with attempts > 0 and recoveries # 0, expected
\* points with rebound value >= expected points without
C8_OrbValueNotLess ==
  pc = "done"
    => \A c \in Categories :
         (Attempts[c] > 0 /\ rebs[c] # 0) => FGe(exp_pts_w_orb[c], exp_pts[c])

\* a row qualifies when two of its seven cells are populated and, under a
\* team token, its shooter or its rebounder holds the token
HasToken(name, tm) ==
  name # NAs /\ \E a \in 1..Len(name) : \E b \in a..Len(name) : SubSeq(name, a, b) = tm

Qualifies(r, tm) ==
  /\ Cardinality({col \in ColumnSet : ~IsNull(col, r[col])}) >= 2
  /\ tm # ALL => (HasToken(r.Shooter, tm) \/ HasToken(r.Rebounder, tm))

QualifyingRows == {k \in 1..Len(data) : Qualifies(data[k], team)}

NthQualifying(j) ==
  CHOOSE k \in QualifyingRows : Cardinality({m \in QualifyingRows : m <= k}) = j

\* C9: clean_data returns exactly the qualifying rows of its input, in the
\* order of the input; no qualifying row gives the empty table
C9_CleanData ==
  pc = "calc_shots"
    => /\ Len(filtered) = Cardinality(QualifyingRows)
       /\ \A j \in 1..Len(filtered) : filtered[j] = Project(data[NthQualifying(j)])

\* the team filter dropped the first of two populated rows and kept the second
C9_Witness ==
  /\ pc = "calc_shots"
  /\ team # ALL
  /\ Len(data) = 2
  /\ NotNullCount(data[1]) >= 2
  /\ data[1].Shooter # NAs
  /\ filtered = <<Project(data[2])>>

\* C10: the category calc_rebs credits for a recovered miss is exactly the
\* set of categories in which calc_shots counts that shot
C10_SameCategorization ==
  (pc = "calc_exp_pts" /\ RecoveredMisses(filtered) = {1})
    => {c \in Categories : rebs[c] > 0} = {c \in Categories : Attempts[c] > 0}
====
